---- MODULE Spec2Model ----
(***************************************************************************)
(* Model of Pyrlang/gen.py: the two gen:call envelope decoders             *)
(* (parse_gen_call, parse_gen_message), the descriptor classes GenBase,    *)
(* GenIncomingMessage and GenIncomingCall, and the two reply operations.   *)
(*                                                                         *)
(* Python values are records [t, s, n, e]: t is the Python type, s a text  *)
(* (str contents, Atom.text_), n a number (int value, pid/ref id) and e    *)
(* the element sequence (tuple, list, Term.List.elements_, Pid.node_).     *)
(* A call of a Python function ends in one of three ways: it returns a     *)
(* str, it returns an object, or it raises; Result records keep the three  *)
(* apart.                                                                  *)
(***************************************************************************)
EXTENDS Integers, Sequences, FiniteSets, TLC

VARIABLES msg, call_res, gm_res, d, d_new, outbox, invoked, raised, last_call, got

vars == <<msg, call_res, gm_res, d, d_new, outbox, invoked, raised, last_call, got>>

\* Most reply operations issued on one descriptor.
MaxReplies == 2

-----------------------------------------------------------------------------
\* The value model

Val(t, s, n, e) == [t |-> t, s |-> s, n |-> n, e |-> e]

None == Val("NoneType", "", 0, <<>>)

PyInt(n) == Val("int", "", n, <<>>)

PyStr(s) == Val("str", s, 0, <<>>)

Tuple(e) == Val("tuple", "", 0, e)

PyList(e) == Val("list", "", 0, e)

\* Term.Atom: an object with the attribute text_
Atom(text) == Val("Atom", text, 0, <<>>)

\* Term.Pid: an object with the attribute node_ (an Atom)
Pid(node, id) == Val("Pid", "", id, <<Atom(node)>>)

\* Term.Reference: opaque
Ref(id) == Val("Reference", "", id, <<>>)

\* Term.List: an object with the attribute elements_ (a Python list)
TermList(e) == Val("List", "", 0, e)

\* isinstance(v, Term.Atom)
IsAtom(v) == v.t = "Atom"

\* hasattr(v, "node_")
HasNode(v) == v.t = "Pid"

\* hasattr(v, "elements_")
HasElements(v) == v.t = "List"

\* The characters of the Python strings the model uses (iteration of a str).
Chars(s) ==
    CASE s = "" -> <<>>
      [] s = "m" -> <<"m">>
      [] s = "f" -> <<"f">>
      [] s = "ab" -> <<"a", "b">>
      [] s = "hello" -> <<"h", "e", "l", "l", "o">>
      [] s = "monitor_p_exit" ->
            <<"m", "o", "n", "i", "t", "o", "r", "_", "p", "_", "e", "x", "i", "t">>

\* Python's iteration protocol: tuple, list and str are iterable.
Iterable(v) == v.t \in {"tuple", "list", "str"}

Iter(v) ==
    IF v.t = "str"
    THEN [i \in 1..Len(Chars(v.s)) |-> PyStr(Chars(v.s)[i])]
    ELSE v.e

\* len(v) is defined for tuple, list and str, and raises TypeError otherwise.
Sized(v) == v.t \in {"tuple", "list", "str"}

PyLen(v) == Len(Iter(v))

RECURSIVE Repr(_), JoinRepr(_)

\* repr(e1), repr(e2), ...
JoinRepr(e) ==
    IF Len(e) = 0 THEN ""
    ELSE IF Len(e) = 1 THEN Repr(e[1])
    ELSE Repr(e[1]) \o ", " \o JoinRepr(Tail(e))

\* repr(v) of int, str, tuple and list
Repr(v) ==
    CASE v.t = "int" -> ToString(v.n)
      [] v.t = "str" -> "'" \o v.s \o "'"
      [] v.t = "tuple" ->
            IF Len(v.e) = 1 THEN "(" \o Repr(v.e[1]) \o ",)"
            ELSE "(" \o JoinRepr(v.e) \o ")"
      [] v.t = "list" -> "[" \o JoinRepr(v.e) \o "]"

\* str(v): a str is its own text, everything else renders as repr does.
Str(v) == IF v.t = "str" THEN v.s ELSE Repr(v)

-----------------------------------------------------------------------------
\* Results of a call

NoObj == [cls |-> "None"]

NoResult == [kind |-> "none", text |-> "", obj |-> NoObj, exc |-> ""]

RetStr(s) == [kind |-> "str", text |-> s, obj |-> NoObj, exc |-> ""]

RetObj(o) == [kind |-> "obj", text |-> "", obj |-> o, exc |-> ""]

Raise(x) == [kind |-> "raise", text |-> "", obj |-> NoObj, exc |-> x]

-----------------------------------------------------------------------------
\* Node.all_nodes: the names under which a node is registered
all_nodes == {"py@a"}

\* What a reply operation leaves behind: the descriptor afterwards, the
\* requests handed to the node, and the exception raised ("" when none).
Done(self, out, exc) == [self |-> self, out |-> out, exc |-> exc]

-----------------------------------------------------------------------------
\* class GenBase

GenBase(sender, ref, node_name) ==
    [node_name_ |-> node_name, sender_ |-> sender, ref_ |-> ref]

\* GenBase.reply with the message tuple built the wrong way round
reply_swapped(self, local_pid, result) ==
    IF self.node_name_ \notin all_nodes
    THEN Done(self, <<>>, "KeyError")
    ELSE Done(self,
              <<[op |-> "send", node |-> self.node_name_,
                 kwargs |-> [sender |-> local_pid,
                             receiver |-> self.sender_,
                             message |-> Tuple(<<result, self.ref_>>)]]>>,
              "")

\* GenBase.reply enforcing single use: a descriptor already answered is
\* not answered again
reply_once(self, local_pid, result) ==
    IF self.node_name_ \notin all_nodes
    THEN Done(self, <<>>, "KeyError")
    ELSE IF outbox # <<>>
    THEN Done(self, <<>>, "")
    ELSE Done(self,
              <<[op |-> "send", node |-> self.node_name_,
                 kwargs |-> [sender |-> local_pid,
                             receiver |-> self.sender_,
                             message |-> Tuple(<<self.ref_, result>>)]]>>,
              "")

reply(self, local_pid, result) ==
    IF self.node_name_ \notin all_nodes
    THEN Done(self, <<>>, "KeyError")
    ELSE Done(self,
              <<[op |-> "send", node |-> self.node_name_,
                 kwargs |-> [sender |-> local_pid,
                             receiver |-> self.sender_,
                             message |-> Tuple(<<self.ref_, result>>)]]>>,
              "")

\* GenBase.reply_exit addressing the directive to the descriptor's own node
reply_exit_own_node(self, local_pid, reason) ==
    IF self.node_name_ \notin all_nodes
    THEN Done(self, <<>>, "KeyError")
    ELSE IF ~HasNode(self.sender_)
    THEN Done(self, <<>>, "AttributeError")
    ELSE Done(self,
              <<[op |-> "dist_command", node |-> self.node_name_,
                 kwargs |-> [receiver_node |-> self.node_name_,
                             message |-> Tuple(<<PyStr("monitor_p_exit"), local_pid,
                                                 self.sender_, self.ref_, reason>>)]]>>,
              "")

reply_exit(self, local_pid, reason) ==
    IF self.node_name_ \notin all_nodes
    THEN Done(self, <<>>, "KeyError")
    ELSE IF ~HasNode(self.sender_)
    THEN Done(self, <<>>, "AttributeError")
    ELSE Done(self,
              <<[op |-> "dist_command", node |-> self.node_name_,
                 kwargs |-> [receiver_node |-> self.sender_.e[1].s,
                             message |-> Tuple(<<PyStr("monitor_p_exit"), local_pid,
                                                 self.sender_, self.ref_, reason>>)]]>>,
              "")

-----------------------------------------------------------------------------
\* class GenIncomingMessage, class GenIncomingCall
\* A constructor is called with keyword arguments kw; a call that leaves a
\* parameter without a default unbound raises TypeError.

GenIncomingMessageParams == {"sender", "ref", "message", "node_name"}

GenIncomingMessage(kw) ==
    IF DOMAIN kw # GenIncomingMessageParams
    THEN Raise("TypeError")
    ELSE RetObj([cls |-> "GenIncomingMessage", message_ |-> kw.message]
                @@ GenBase(kw.sender, kw.ref, kw.node_name))

GenIncomingCallParams ==
    {"mod", "fun", "args", "group_leader", "sender", "ref", "node_name"}

GenIncomingCall(kw) ==
    IF DOMAIN kw # GenIncomingCallParams
    THEN Raise("TypeError")
    ELSE RetObj([cls |-> "GenIncomingCall", mod_ |-> kw.mod, fun_ |-> kw.fun,
                 args_ |-> kw.args, group_leader_ |-> kw.group_leader]
                @@ GenBase(kw.sender, kw.ref, kw.node_name))

\* GenIncomingCall.get_args handing back the stored args whatever their form
get_args_raw(self) == RetObj(self.args_)

get_args(self) ==
    IF self.args_.t = "list" THEN RetObj(self.args_)
    ELSE IF ~HasElements(self.args_) THEN Raise("AttributeError")
    ELSE RetObj(PyList(self.args_.e))

-----------------------------------------------------------------------------
\* The decoders

\* The exception of the unpacking "(x1, ..., xk) = v", "" when it succeeds
Unpack(v, k) ==
    IF ~Iterable(v) THEN "TypeError"
    ELSE IF Len(Iter(v)) # k THEN "ValueError"
    ELSE ""

\* The tag test accepting any atom
IsGenCallAnyAtom(v) == IsAtom(v)

\* isinstance(v, Term.Atom) and v.text_ == '$gen_call'
IsGenCall(v) == IsAtom(v) /\ v.s = "$gen_call"

\* The text before the offending value in the two type errors
ModulePrefix == "Module must be an atom: "

FunctionPrefix == "Function must be an atom: "

\* The checks of the call body with the function tested before the module
CheckCallFunctionFirst(body, msender, mref) ==
    IF ~Sized(body) THEN Raise("TypeError")
    ELSE IF PyLen(body) # 5 THEN RetStr("Expecting a 5-tuple (with a 'call' atom)")
    ELSE LET b == Iter(body) IN
         IF ~IsAtom(b[3]) THEN RetStr(FunctionPrefix \o Str(b[3]))
         ELSE IF ~IsAtom(b[2]) THEN RetStr(ModulePrefix \o Str(b[2]))
         ELSE GenIncomingCall([mod |-> b[2], fun |-> b[3], args |-> b[4],
                               group_leader |-> b[5],
                               sender |-> msender, ref |-> mref])

\* parse_gen_call from the length test of the call body on
CheckCall(body, msender, mref) ==
    IF ~Sized(body) THEN Raise("TypeError")
    ELSE IF PyLen(body) # 5 THEN RetStr("Expecting a 5-tuple (with a 'call' atom)")
    ELSE LET b == Iter(body) IN
         IF ~IsAtom(b[2]) THEN RetStr(ModulePrefix \o Str(b[2]))
         ELSE IF ~IsAtom(b[3]) THEN RetStr(FunctionPrefix \o Str(b[3]))
         ELSE GenIncomingCall([mod |-> b[2], fun |-> b[3], args |-> b[4],
                               group_leader |-> b[5],
                               sender |-> msender, ref |-> mref])

parse_gen_call(m) ==
    IF m.t # "tuple" THEN RetStr("Only {tuple} messages allowed")
    ELSE IF Len(m.e) = 0 THEN Raise("IndexError")
    ELSE IF ~IsGenCall(m.e[1]) THEN RetStr("Only {$gen_call, _, _} messages allowed")
    ELSE IF Unpack(m, 3) # "" THEN Raise(Unpack(m, 3))
    ELSE IF Unpack(m.e[2], 2) # "" THEN Raise(Unpack(m.e[2], 2))
    ELSE CheckCall(m.e[3], Iter(m.e[2])[1], Iter(m.e[2])[2])

parse_gen_message(m, node_name) ==
    IF m.t # "tuple" THEN RetStr("Only {tuple} messages allowed")
    ELSE IF Len(m.e) = 0 THEN Raise("IndexError")
    ELSE IF ~IsGenCall(m.e[1]) THEN RetStr("Only {$gen_call, _, _} messages allowed")
    ELSE IF Unpack(m, 3) # "" THEN Raise(Unpack(m, 3))
    ELSE IF Unpack(m.e[2], 2) # "" THEN Raise(Unpack(m.e[2], 2))
    ELSE GenIncomingMessage([sender |-> Iter(m.e[2])[1], ref |-> Iter(m.e[2])[2],
                             message |-> m.e[3], node_name |-> node_name])

-----------------------------------------------------------------------------
\* The inputs

GenCallTag == Atom("$gen_call")

NodeNames == {"py@a", "py@ghost"}

Senders == {Pid("erl@a", 1), Pid("erl@b", 2), PyInt(7)}

Refs == {Ref(1), Ref(2)}

LocalPids == {Pid("py@a", 1), Pid("py@a", 2)}

Abc == <<PyInt(1), PyStr("m"), Atom("c")>>

ArgForms == {PyList(Abc), TermList(Abc)}

Mods == {Atom("rpc"), PyInt(1), PyStr("m")}

Funs == {Atom("call"), PyInt(2), Tuple(<<PyInt(1), PyStr("f")>>)}

GroupLeader == Pid("erl@a", 9)

\* Call bodies: every pairing of module and function forms, and both forms
\* of the argument list
CallBodies ==
    {Tuple(<<Atom("call"), mo, fu, PyList(Abc), GroupLeader>>) :
        mo \in Mods, fu \in Funs}
    \cup {Tuple(<<Atom("call"), Atom("rpc"), Atom("call"), TermList(Abc), GroupLeader>>)}

OtherBodies ==
    {PyInt(42), PyStr("hello"), PyStr("ab"), Tuple(<<>>),
     Tuple(<<Atom("is_auth"), Atom("erl@a")>>),
     PyList(<<Atom("call"), Atom("rpc"), Atom("call"), PyList(Abc), GroupLeader>>),
     Tuple(<<Atom("call"), Atom("rpc"), Atom("call"), PyList(Abc), GroupLeader, PyInt(0)>>)}

Bodies == CallBodies \cup OtherBodies

GoodSenderRefs == {Tuple(<<sn, rf>>) : sn \in Senders, rf \in Refs}

OddSenderRefs ==
    {PyList(<<Pid("erl@a", 1), Ref(1)>>), PyStr("ab"), PyInt(3),
     Tuple(<<Ref(1)>>), Tuple(<<Pid("erl@a", 1), Ref(1), Ref(2)>>)}

FewBodies ==
    {PyInt(42), Tuple(<<Atom("call"), Atom("rpc"), Atom("call"), PyList(Abc), GroupLeader>>)}

OtherTags == {Atom("$gen_cast"), PyStr("$gen_call"), PyInt(0)}

Tags == {GenCallTag} \cup OtherTags

SenderRef0 == Tuple(<<Pid("erl@a", 1), Ref(1)>>)

Envelopes ==
    {Tuple(<<GenCallTag, SenderRef0, bo>>) : bo \in Bodies}
    \cup {Tuple(<<GenCallTag, sr, bo>>) :
            sr \in GoodSenderRefs \cup OddSenderRefs, bo \in FewBodies}
    \cup {Tuple(<<tg, SenderRef0, bo>>) : tg \in OtherTags, bo \in FewBodies}
    \cup {Tuple(<<>>)}
    \cup {Tuple(<<tg>>) : tg \in Tags}
    \cup {Tuple(<<tg, SenderRef0>>) : tg \in Tags}
    \cup {Tuple(<<tg, SenderRef0, PyInt(42), PyInt(0)>>) : tg \in Tags}
    \cup {PyInt(5), GenCallTag, PyStr("hello"), None,
          PyList(<<GenCallTag, SenderRef0, PyInt(42)>>)}

\* The arguments a caller may hand to GenIncomingCall directly
StoredArgs == ArgForms \cup {PyList(<<>>), TermList(<<>>), PyInt(42)}

-----------------------------------------------------------------------------
\* The operations

NoCall == [op |-> "none", local_pid |-> None, arg |-> None]

Init ==
    /\ msg = None
    /\ call_res = NoResult
    /\ gm_res = NoResult
    /\ d = NoObj
    /\ d_new = NoObj
    /\ outbox = <<>>
    /\ invoked = 0
    /\ raised = 0
    /\ last_call = NoCall
    /\ got = NoResult

\* A descriptor comes into being (o) or the handling context holds none.
Hold(o) ==
    /\ d' = o
    /\ d_new' = o
    /\ outbox' = <<>>
    /\ invoked' = 0
    /\ raised' = 0
    /\ last_call' = NoCall
    /\ got' = NoResult

ParseGenCall ==
    \E m \in Envelopes :
        /\ msg' = m
        /\ call_res' = parse_gen_call(m)
        /\ gm_res' = NoResult
        /\ Hold(call_res'.obj)

ParseGenMessage ==
    \E m \in Envelopes, node_name \in NodeNames :
        /\ msg' = m
        /\ gm_res' = parse_gen_message(m, node_name)
        /\ call_res' = NoResult
        /\ Hold(gm_res'.obj)

NewGenIncomingCall ==
    \E ar \in StoredArgs, sn \in Senders, rf \in Refs, node_name \in NodeNames :
        /\ msg' = None
        /\ call_res' = NoResult
        /\ gm_res' = NoResult
        /\ Hold(GenIncomingCall([mod |-> Atom("rpc"), fun |-> Atom("call"),
                                 args |-> ar, group_leader |-> GroupLeader,
                                 sender |-> sn, ref |-> rf,
                                 node_name |-> node_name]).obj)

\* One reply operation on the held descriptor, r its outcome
Replied(op, local_pid, arg, r) ==
    /\ d' = r.self
    /\ outbox' = outbox \o r.out
    /\ invoked' = invoked + 1
    /\ raised' = IF r.exc # "" THEN raised + 1 ELSE raised
    /\ last_call' = [op |-> op, local_pid |-> local_pid, arg |-> arg]
    /\ UNCHANGED <<msg, call_res, gm_res, d_new, got>>

Results == {Atom("ok")}

Reasons == {Atom("badarg")}

Reply ==
    /\ d # NoObj
    /\ invoked < MaxReplies
    /\ \E local_pid \in LocalPids, result \in Results :
          Replied("reply", local_pid, result, reply(d, local_pid, result))

ReplyExit ==
    /\ d # NoObj
    /\ invoked < MaxReplies
    /\ \E local_pid \in LocalPids, reason \in Reasons :
          Replied("reply_exit", local_pid, reason, reply_exit(d, local_pid, reason))

GetArgs ==
    /\ d # NoObj
    /\ d.cls = "GenIncomingCall"
    /\ got' = get_args(d)
    /\ UNCHANGED <<msg, call_res, gm_res, d, d_new, outbox, invoked, raised, last_call>>

Next ==
    \/ ParseGenCall
    \/ ParseGenMessage
    \/ NewGenIncomingCall
    \/ Reply
    \/ ReplyExit
    \/ GetArgs

Spec == Init /\ [][Next]_vars

-----------------------------------------------------------------------------
\* The claims

CalledCall == call_res.kind # "none"

CalledMsg == gm_res.kind # "none"

\* m is a 3-element tuple
IsTriple(m) == m.t = "tuple" /\ Len(m.e) = 3

\* m is a 2-element tuple
IsPair(m) == m.t = "tuple" /\ Len(m.e) = 2

\* m is a 5-element tuple
IsQuintuple(m) == m.t = "tuple" /\ Len(m.e) = 5

\* m is ('$gen_call', (S, R), body)
IsGenEnvelope(m) == IsTriple(m) /\ m.e[1] = GenCallTag /\ IsPair(m.e[2])

\* The correlation token a request carries
RefOf(rq) ==
    IF rq.op = "send" THEN rq.kwargs.message.e[1] ELSE rq.kwargs.message.e[4]

\* C1: neither decoder ever raises: whatever the envelope, parse_gen_call and
\* parse_gen_message end by returning a descriptor or a string.
C1_DecodersNeverRaise ==
    /\ call_res.kind # "raise"
    /\ gm_res.kind # "raise"

\* C2: for ('$gen_call', (S, R), (call_marker, Mod, Fun, Args, GL)) with Mod
\* and Fun atoms, parse_gen_call returns a GenIncomingCall holding S, R, Mod,
\* Fun, Args as received and GL.
C2_CallEnvelopeDecodes ==
    (CalledCall /\ IsGenEnvelope(msg) /\ IsQuintuple(msg.e[3])
        /\ IsAtom(msg.e[3].e[2]) /\ IsAtom(msg.e[3].e[3]))
    => /\ call_res.kind = "obj"
       /\ call_res.obj.cls = "GenIncomingCall"
       /\ call_res.obj.sender_ = msg.e[2].e[1]
       /\ call_res.obj.ref_ = msg.e[2].e[2]
       /\ call_res.obj.mod_ = msg.e[3].e[2]
       /\ call_res.obj.fun_ = msg.e[3].e[3]
       /\ call_res.obj.args_ = msg.e[3].e[4]
       /\ call_res.obj.group_leader_ = msg.e[3].e[5]

\* C3: every envelope that is not a 3-element tuple (a non-tuple, or a tuple
\* of any other length, whatever its first element) makes both decoders
\* return a rejection string.
C3_NonTripleRejected ==
    ~IsTriple(msg)
    => /\ CalledCall => call_res.kind = "str"
       /\ CalledMsg => gm_res.kind = "str"

\* C4: an envelope whose first element is not the atom '$gen_call' makes both
\* decoders return a rejection string, and no descriptor is constructed.
C4_WrongTagRejected ==
    (Sized(msg) /\ PyLen(msg) >= 1 /\ Iter(msg)[1] # GenCallTag)
    => /\ CalledCall => call_res.kind = "str" /\ d = NoObj
       /\ CalledMsg => gm_res.kind = "str" /\ d = NoObj

\* C4 happens: parse_gen_message was handed a 3-tuple tagged with another atom.
C4_Witness ==
    /\ CalledMsg
    /\ IsTriple(msg)
    /\ IsAtom(msg.e[1])
    /\ msg.e[1] # GenCallTag
    /\ gm_res.kind = "str"

\* C5: for ('$gen_call', (S, R), payload) with a payload that is not a 5-tuple
\* (sequence or not), parse_gen_message returns a GenIncomingMessage holding
\* S, R and the payload verbatim, and parse_gen_call returns the arity error.
C5_OpaquePayload ==
    (IsGenEnvelope(msg) /\ ~IsQuintuple(msg.e[3]))
    => /\ CalledMsg =>
            /\ gm_res.kind = "obj"
            /\ gm_res.obj.cls = "GenIncomingMessage"
            /\ gm_res.obj.sender_ = msg.e[2].e[1]
            /\ gm_res.obj.ref_ = msg.e[2].e[2]
            /\ gm_res.obj.message_ = msg.e[3]
       /\ CalledCall =>
            call_res = RetStr("Expecting a 5-tuple (with a 'call' atom)")

\* C6: reply(local_pid, result) on a descriptor whose node name is registered
\* hands exactly one request to that node: a send with sender local_pid,
\* receiver the descriptor's sender and message (ref, result); for a
\* descriptor decoded from an envelope, the message's first element is the
\* envelope's correlation token.
C6_ReplySendsOnce ==
    [][(last_call'.op = "reply" /\ invoked' = invoked + 1
            /\ d.node_name_ \in all_nodes)
       => /\ outbox' = Append(outbox,
                 [op |-> "send", node |-> d.node_name_,
                  kwargs |-> [sender |-> last_call'.local_pid,
                              receiver |-> d.sender_,
                              message |-> Tuple(<<d.ref_, last_call'.arg>>)]])
          /\ gm_res.kind = "obj"
                => outbox'[Len(outbox')].kwargs.message.e[1] = Iter(msg.e[2])[2]
      ]_vars

\* C6 happens: a decoded descriptor was answered with reply.
C6_Witness ==
    /\ gm_res.kind = "obj"
    /\ last_call.op = "reply"
    /\ outbox # <<>>
    /\ outbox[Len(outbox)].op = "send"
    /\ outbox[Len(outbox)].kwargs.message.e[1] = Iter(msg.e[2])[2]

\* C7: reply_exit(local_pid, reason) on a descriptor whose node name is
\* registered and whose sender is a pid hands exactly one request to the
\* node: a dist_command, no send, with message ('monitor_p_exit', local_pid,
\* sender, ref, reason), the ref being the decoded envelope's, and with
\* receiver_node the node name of the sender, not the descriptor's own.
C7_ReplyExitDirective ==
    [][(last_call'.op = "reply_exit" /\ invoked' = invoked + 1
            /\ d.node_name_ \in all_nodes /\ HasNode(d.sender_))
       => /\ outbox' = Append(outbox,
                 [op |-> "dist_command", node |-> d.node_name_,
                  kwargs |-> [receiver_node |-> d.sender_.e[1].s,
                              message |-> Tuple(<<PyStr("monitor_p_exit"),
                                                  last_call'.local_pid,
                                                  d.sender_, d.ref_,
                                                  last_call'.arg>>)]])
          /\ outbox'[Len(outbox')].kwargs.receiver_node # d.node_name_
          /\ gm_res.kind = "obj"
                => outbox'[Len(outbox')].kwargs.message.e[4] = Iter(msg.e[2])[2]
      ]_vars

\* C7 happens: a decoded descriptor was answered with reply_exit.
C7_Witness ==
    /\ gm_res.kind = "obj"
    /\ last_call.op = "reply_exit"
    /\ outbox # <<>>
    /\ outbox[Len(outbox)].op = "dist_command"
    /\ outbox[Len(outbox)].kwargs.receiver_node = "erl@b"

\* C8: with a 5-element call body, a Module that is no atom makes
\* parse_gen_call return a string that ends in the rendering of the Module
\* value, also when the Function is no atom either; an atom Module with a
\* Function that is no atom makes it return a string that ends in the
\* rendering of the Function value.
C8_TypeErrorNamesValue ==
    (CalledCall /\ IsTriple(msg) /\ msg.e[1] = GenCallTag
        /\ Unpack(msg.e[2], 2) = "" /\ Sized(msg.e[3]) /\ PyLen(msg.e[3]) = 5)
    => LET b == Iter(msg.e[3]) IN
       /\ ~IsAtom(b[2]) =>
            /\ call_res.kind = "str"
            /\ call_res.text = "Module must be an atom: " \o Str(b[2])
       /\ (IsAtom(b[2]) /\ ~IsAtom(b[3])) =>
            /\ call_res.kind = "str"
            /\ call_res.text = "Function must be an atom: " \o Str(b[3])

\* C8 happens: parse_gen_call was handed a call whose Module and Function are
\* both no atoms.
C8_Witness ==
    /\ CalledCall
    /\ IsGenEnvelope(msg)
    /\ IsQuintuple(msg.e[3])
    /\ ~IsAtom(msg.e[3].e[2])
    /\ ~IsAtom(msg.e[3].e[3])
    /\ call_res.kind = "str"

\* C9: get_args returns a plain list with the stored elements in their order,
\* whether args is a bare list or a Term.List wrapping them; a bare list is
\* returned unchanged.
C9_GetArgsUniform ==
    (d.cls = "GenIncomingCall" /\ got.kind = "obj")
    => /\ got.obj.t = "list"
       /\ got.obj.e = d.args_.e
       /\ d.args_.t = "list" => got.obj = d.args_

\* C9 happens: get_args unwrapped a Term.List of three elements.
C9_Witness ==
    /\ d.cls = "GenIncomingCall"
    /\ d.args_ = TermList(Abc)
    /\ got.kind = "obj"
    /\ got.obj = PyList(Abc)

\* C10: after any sequence of reply and reply_exit on one descriptor, its node
\* name, sender and ref are as constructed and every request handed out
\* carries that ref; with the node name registered and the sender a pid, no
\* call is refused and the requests number the operations invoked.
C10_RepliesNotSingleUse ==
    d # NoObj
    => /\ d.node_name_ = d_new.node_name_
       /\ d.sender_ = d_new.sender_
       /\ d.ref_ = d_new.ref_
       /\ \A i \in 1..Len(outbox) : RefOf(outbox[i]) = d_new.ref_
       /\ Len(outbox) = invoked - raised
       /\ (d.node_name_ \in all_nodes /\ HasNode(d.sender_))
            => raised = 0 /\ Len(outbox) = invoked

\* C10 happens: one descriptor was answered twice, by reply and by reply_exit.
C10_Witness ==
    /\ d # NoObj
    /\ invoked = 2
    /\ Len(outbox) = 2
    /\ outbox[1].op = "send"
    /\ outbox[2].op = "dist_command"

====
